---------------------------- MODULE Spec2Model ----------------------------
(***************************************************************************)
(* Model of scraper.py: the form (create_gui, on_entry_click, on_focusout, *)
(* run_scraper), the search / details / website pipeline                   *)
(* (fetch_businesses, fetch_email_from_website) and the serializer         *)
(* (save_to_csv).                                                          *)
(*                                                                         *)
(* The pipeline is synchronous: while run_scraper runs the Tk main loop    *)
(* handles no event.  A run is cut into steps at its HTTP requests: every  *)
(* action of the run is one request, one outcome of it (an exception, a    *)
(* status, a payload) and all the code that follows up to the next request *)
(* or to the end of run_scraper.                                           *)
(*                                                                         *)
(* Python strings are TLA+ strings.  A text that is scanned by the regular *)
(* expression is a sequence of one-character strings, because only a       *)
(* sequence can be indexed; Str turns a slice of it back into a string.    *)
(***************************************************************************)
EXTENDS Integers, Sequences, FiniteSets, TLC

VARIABLES
    location_entry,   \* text of the location Entry
    category_entry,   \* text of the category Entry
    radius_entry,     \* text of the radius Entry
    focus,            \* "location", "category", or "none": the focus is elsewhere
    result_text,      \* the ScrolledText pane: the strings inserted, in order
    lastbox,          \* the last messagebox shown
    stdout,           \* the last line printed
    file,             \* businesses.csv: its rows, <<>> while it does not exist
    pc,               \* "idle" (main loop) or the request the run is about to issue
    params,           \* fetch_businesses: params of the text search
    client_list,      \* fetch_businesses: client_list
    businesses,       \* fetch_businesses: businesses of the current page
    idx,              \* fetch_businesses: position of the for loop in businesses
    next_page_token,  \* fetch_businesses: data.get("next_page_token") of the page
    website,          \* fetch_businesses: website of the current business
    phone,            \* fetch_businesses: phone of the current business
    returned,         \* run_scraper: its local businesses, once fetch_businesses returned
    requests,         \* history: number of HTTP requests issued so far
    pages_seen,       \* history: the pages of hits received in the current run
    ending,           \* history: how the last run ended, with how many records
    page,             \* harvester on its own: the outcome of the website request
    harvest           \* harvester on its own: what fetch_email_from_website returned

vars == << location_entry, category_entry, radius_entry, focus, result_text,
           lastbox, stdout, file, pc, params, client_list, businesses, idx,
           next_page_token, website, phone, returned, requests, pages_seen,
           ending, page, harvest >>

(***************************************************************************)
(* Bounds of the model.                                                    *)
(***************************************************************************)
\* HTTP requests (search, details, website) issued in one session
MaxRequests == 4
\* hits in one page of search results
MaxHits == 2
\* pieces a website text is built from
MaxPieces == 3

(***************************************************************************)
(* Python values.                                                          *)
(***************************************************************************)
\* Python's None (dict.get of an absent key); no string of the model equals it
None == "<None>"

\* truthiness of a str-or-None value
Truthy(v) == v # None /\ v # ""

\* str(v), as an f-string formats a str-or-None value
PyStr(v) == IF v = None THEN "None" ELSE v

RECURSIVE Str(_)
\* "".join(cs): the string made of the characters cs
Str(cs) == IF cs = << >> THEN "" ELSE cs[1] \o Str(Tail(cs))

RECURSIVE Join(_)
\* ", ".join(xs)
Join(xs) ==
    IF xs = << >> THEN ""
    ELSE IF Len(xs) = 1 THEN xs[1]
    ELSE xs[1] \o ", " \o Join(Tail(xs))

(***************************************************************************)
(* The placeholder sentinels.                                              *)
(***************************************************************************)
NoWebsite == "No website available"
NoPhone == "No phone available"
NoEmail == "No email available"

(***************************************************************************)
(* re.findall(r"[a-zA-Z0-9._%+-]+@[a-zA-Z0-9.-]+\.[a-zA-Z]{2,}", text)     *)
(***************************************************************************)
Lower == {"a","b","c","d","e","f","g","h","i","j","k","l","m",
          "n","o","p","q","r","s","t","u","v","w","x","y","z"}
Upper == {"A","B","C","D","E","F","G","H","I","J","K","L","M",
          "N","O","P","Q","R","S","T","U","V","W","X","Y","Z"}
Digit == {"0","1","2","3","4","5","6","7","8","9"}
\* [a-zA-Z]
AlphaClass == Lower \cup Upper
\* [a-zA-Z0-9._%+-]
LocalClass == AlphaClass \cup Digit \cup {".", "_", "%", "+", "-"}
\* [a-zA-Z0-9.-]
DomainClass == AlphaClass \cup Digit \cup {".", "-"}

RECURSIVE RunLen(_, _, _)
\* the number of consecutive characters of class cls in t from position p on
RunLen(t, p, cls) ==
    IF p <= Len(t) /\ t[p] \in cls THEN 1 + RunLen(t, p + 1, cls) ELSE 0

\* The end of the match of the pattern that starts at position s of t, 0 if
\* there is none.  The greedy local part is the whole run of LocalClass ("@" is
\* not in the class, so no shorter one is followed by "@"); the greedy domain
\* part backs off to the last "." of its run that has a character of the run
\* before it and two letters or more after it; the greedy {2,} takes them all.
MatchEnd(t, s) ==
    LET l == RunLen(t, s, LocalClass)
        p == s + l + 1
        m == RunLen(t, p, DomainClass)
        js == { j \in 1..(m - 1) :
                  /\ t[p + j] = "."
                  /\ RunLen(t, p + j + 1, AlphaClass) >= 2 }
        j == CHOOSE k \in js : \A o \in js : o <= k
    IN  IF l >= 1 /\ s + l <= Len(t) /\ t[s + l] = "@" /\ js # {}
        THEN p + j + RunLen(t, p + j + 1, AlphaClass)
        ELSE 0

RECURSIVE FindAll(_, _)
\* the non-overlapping matches in t from position i on, leftmost first
FindAll(t, i) ==
    IF i > Len(t) THEN << >>
    ELSE LET e == MatchEnd(t, i)
         IN  IF e = 0 THEN FindAll(t, i + 1)
             ELSE << Str(SubSeq(t, i, e)) >> \o FindAll(t, e + 1)

\* the elements of a sequence
Range(xs) == { xs[i] : i \in DOMAIN xs }

\* the orders in which a Python set may be iterated: its elements, each once
Orders(S) ==
    { o \in [1..Cardinality(S) -> S] : \A i, j \in DOMAIN o : o[i] = o[j] => i = j }

(***************************************************************************)
(* fetch_email_from_website.  site is the outcome of requests.get and of   *)
(* the parse: [raises |-> TRUE] or the text of the page (soup.text).  The  *)
(* values the call may return: the order of ", ".join over a set is not    *)
(* fixed.                                                                  *)
(***************************************************************************)
NoDedupe_fetch_email_from_website(site) ==
    IF site.raises THEN { NoEmail }
    ELSE LET emails == FindAll(site.text, 1)
         IN  IF emails # << >> THEN { Join(emails) } ELSE { NoEmail }

fetch_email_from_website(site) ==
    IF site.raises THEN { NoEmail }
    ELSE LET emails == Range(FindAll(site.text, 1))
         IN  IF emails # {} THEN { Join(o) : o \in Orders(emails) } ELSE { NoEmail }

\* what fetch_email_from_website prints: a line on an exception only
fetch_email_prints(site, url, out) ==
    IF site.raises THEN "Failed to fetch email from " \o url \o ": error" ELSE out

(***************************************************************************)
(* save_to_csv(data): DataFrame(data).to_csv(filename, index=False,        *)
(* sep=';').  The file is its rows, each row the cells between the ";";    *)
(* pandas writes a None as an empty cell.  The result is the file and the  *)
(* last line printed after the call.                                       *)
(***************************************************************************)
Header == << "Name", "Website", "Phone", "Email", "Address" >>

CsvCell(v) == IF v = None THEN "" ELSE v

CsvRow(r) ==
    << CsvCell(r.Name), CsvCell(r.Website), CsvCell(r.Phone), CsvCell(r.Email),
       CsvCell(r.Address) >>

WritesHeaderOnly_save_to_csv(data, f, out) ==
    [ file |-> << Header >> \o [ i \in DOMAIN data |-> CsvRow(data[i]) ],
      stdout |-> out ]

save_to_csv(data, f, out) ==
    IF data # << >>
    THEN [ file |-> << Header >> \o [ i \in DOMAIN data |-> CsvRow(data[i]) ],
           stdout |-> out ]
    ELSE [ file |-> f, stdout |-> "No data to save." ]

(***************************************************************************)
(* The form.                                                               *)
(***************************************************************************)
LocationHint == "Enter location"
CategoryHint == "Enter category"

\* sys.int_info.default_max_str_digits: the longest text of digits int() converts
MaxStrDigits == 4300

\* c * n: the character c repeated n times.  The text of the radius Entry is
\* a sequence of such runs, so that a text of thousands of digits is a value
\* of a few elements.
Run(c, n) == [ c |-> c, n |-> n ]

\* a text of digits one longer than int() converts
LongDigits == << Run("1", MaxStrDigits + 1) >>

\* what the user may type into the fields
LocationTexts == { "", "Paris" }
CategoryTexts == { "", "cafes" }
RadiusTexts ==
    { << Run("5", 1), Run("0", 3) >>,
      << Run("2", 1), Run("k", 1), Run("m", 1) >>,
      << Run("U+00B2", 1) >>,
      LongDigits }

\* the entries with <FocusIn> and <FocusOut> bindings
Entries == { "location", "category" }

NoBox == [ kind |-> "none", title |-> "", message |-> "" ]
InputErrorBox ==
    [ kind |-> "error", title |-> "Input Error",
      message |-> "Please enter both location and category." ]
SuccessBox(n) ==
    [ kind |-> "info", title |-> "Success",
      message |-> "Found " \o ToString(n) \o " businesses." ]
NoResultsBox ==
    [ kind |-> "info", title |-> "No Results", message |-> "No businesses found." ]
\* str(e) of the exception a request raised
ErrorBox == [ kind |-> "error", title |-> "Error", message |-> "request failed" ]

\* on_entry_click: the text of the entry after a <FocusIn>
on_entry_click(text, placeholder) == IF text = placeholder THEN "" ELSE text

NoRestore_on_focusout(text, placeholder) == text

\* on_focusout: the text of the entry after a <FocusOut>
on_focusout(text, placeholder) == IF text = "" THEN placeholder ELSE text

\* the lines run_scraper inserts into the pane for one business
RenderOne(b) ==
    << "Name:                          " \o PyStr(b.Name) \o "\n",
       "Website:                       " \o PyStr(b.Website) \o "\n",
       "Phone:                         " \o PyStr(b.Phone) \o "\n",
       "Email:                         " \o PyStr(b.Email) \o "\n",
       "Address:                       " \o PyStr(b.Address) \o "\n",
       "------------------------------------------------------------\n" >>

RECURSIVE Render(_)
\* the pane after result_text.delete(1.0, END) and the inserts of every business
Render(bs) == IF bs = << >> THEN << >> ELSE RenderOne(bs[1]) \o Render(Tail(bs))

DefaultRadius == 5000

\* Characters outside ASCII are written by their code point, one element of
\* the text each.  Decimal digits that are not ASCII: ARABIC-INDIC DIGIT THREE.
OtherDecimal == { "U+0663" }
\* Characters str.isdigit accepts and int rejects: SUPERSCRIPT TWO.
DigitNotDecimal == { "U+00B2" }

RECURSIVE Length(_)
\* len(rs): the number of characters of the text
Length(rs) == IF rs = << >> THEN 0 ELSE rs[1].n + Length(Tail(rs))

\* the characters that occur in the text
CharsOf(rs) == { rs[i].c : i \in { k \in DOMAIN rs : rs[k].n > 0 } }

\* str.isdigit: the text is not empty and every character is a digit
IsDigit(rs) ==
    /\ Length(rs) > 0
    /\ CharsOf(rs) \subseteq Digit \cup OtherDecimal \cup DigitNotDecimal

\* int(rs) of a text str.isdigit accepts raises ValueError: a character of it
\* is no decimal digit, or the text has more characters than the interpreter's
\* limit for the conversion (CPython 3.11 and later, and the security releases
\* of 3.7 to 3.10, at the default setting of the limit)
IntRaises(rs) ==
    \/ ~ CharsOf(rs) \subseteq Digit \cup OtherDecimal
    \/ Length(rs) > MaxStrDigits

DigitVal(c) == IF c = "U+0663" THEN 3 ELSE CHOOSE n \in 0..9 : ToString(n) = c

RECURSIVE IntOf(_)
\* int(rs) of a string of decimal digits
IntOf(rs) ==
    IF rs = << >> THEN 0
    ELSE LET last == rs[Len(rs)]
             front == SubSeq(rs, 1, Len(rs) - 1)
         IN  IF last.n = 0 THEN IntOf(front)
             ELSE 10 * IntOf(front \o << Run(last.c, last.n - 1) >>) + DigitVal(last.c)

\* int(radius) if radius and radius.isdigit() else 5000 raises ValueError
ParseRadiusRaises(rs) == IsDigit(rs) /\ IntRaises(rs)

\* int(radius) if radius and radius.isdigit() else 5000, when it does not raise
ParseRadius(rs) == IF IsDigit(rs) THEN IntOf(rs) ELSE DefaultRadius

(***************************************************************************)
(* What the network may answer.                                            *)
(***************************************************************************)
API_KEY == "key"

\* the hits a page of the text search may hold; the second one lacks "name" and
\* "formatted_address"
Hits ==
    { [ name |-> "Cafe A", formatted_address |-> "1 Main St", place_id |-> "pA" ],
      [ name |-> None, formatted_address |-> None, place_id |-> "pB" ] }

ResultPages == UNION { [ 1..n -> Hits ] : n \in 0..MaxHits }

\* next_page_token of a page: absent, or a token
Tokens == { None, "token" }

\* a status code other than 200
BadStatus == { 500 }

\* "result" of a details payload
DetailsResults ==
    { [ website |-> None, formatted_phone_number |-> "555-0100" ],
      [ website |-> "http://a.example", formatted_phone_number |-> None ] }

Raises == [ raises |-> TRUE, text |-> << >> ]

Chars_a_b_co == << "a", "@", "b", ".", "c", "o" >>
Chars_c_d_io == << "c", "@", "d", ".", "i", "o" >>

\* outcomes of the website request in a run of the form: an exception, a page
\* with one address twice
Sites ==
    { Raises,
      [ raises |-> FALSE, text |-> Chars_a_b_co \o << " " >> \o Chars_a_b_co ] }

\* the pieces the texts of the harvester on its own are made of
Pieces == { Chars_a_b_co, Chars_c_d_io, << " " >>, << "a" >>, << "@" >>, << "." >>, << "9" >> }

RECURSIVE Texts(_)
Texts(n) ==
    IF n = 0 THEN { << >> }
    ELSE Texts(n - 1) \cup { t \o p : t \in Texts(n - 1), p \in Pieces }

(***************************************************************************)
(* The state after create_gui, before any event.                           *)
(***************************************************************************)
NoParams == [ query |-> "", key |-> "", radius |-> 0, pagetoken |-> None ]
Unbound == [ bound |-> FALSE, value |-> << >> ]
NotHarvested == [ done |-> FALSE, value |-> "" ]

InitForm ==
    /\ location_entry = LocationHint
    /\ category_entry = CategoryHint
    /\ radius_entry = << Run("5", 1), Run("0", 3) >>
    /\ focus = "none"
    /\ result_text = << >>
    /\ lastbox = NoBox
    /\ stdout = ""
    /\ file = << >>
    /\ pc = "idle"
    /\ params = NoParams
    /\ client_list = << >>
    /\ businesses = << >>
    /\ idx = 0
    /\ next_page_token = None
    /\ website = None
    /\ phone = None
    /\ returned = Unbound
    /\ requests = 0
    /\ pages_seen = << >>
    /\ ending = [ how |-> "none", records |-> 0 ]

Init ==
    /\ InitForm
    /\ page = [ raises |-> FALSE, text |-> << >> ]
    /\ harvest = NotHarvested

formVars == << location_entry, category_entry, radius_entry, focus >>
localVars == << params, client_list, businesses, idx, next_page_token, website, phone >>
outputVars == << result_text, lastbox, stdout, file >>
aloneVars == << page, harvest >>

(***************************************************************************)
(* Events of the form.  The keyboard goes to the entry that holds the      *)
(* focus.  The radius entry has no binding: the focus on it is the focus   *)
(* elsewhere ("none") for the two entries that have.                       *)
(***************************************************************************)
FocusIn(e) ==
    /\ pc = "idle"
    /\ focus = "none"
    /\ focus' = e
    /\ location_entry' =
          IF e = "location" THEN on_entry_click(location_entry, LocationHint)
          ELSE location_entry
    /\ category_entry' =
          IF e = "category" THEN on_entry_click(category_entry, CategoryHint)
          ELSE category_entry
    /\ UNCHANGED << radius_entry, localVars, outputVars, aloneVars, pc, returned,
                    requests, pages_seen, ending >>

FocusOut(e) ==
    /\ pc = "idle"
    /\ focus = e
    /\ focus' = "none"
    /\ location_entry' =
          IF e = "location" THEN on_focusout(location_entry, LocationHint)
          ELSE location_entry
    /\ category_entry' =
          IF e = "category" THEN on_focusout(category_entry, CategoryHint)
          ELSE category_entry
    /\ UNCHANGED << radius_entry, localVars, outputVars, aloneVars, pc, returned,
                    requests, pages_seen, ending >>

TypeLocation(v) ==
    /\ pc = "idle"
    /\ focus = "location"
    /\ v # location_entry
    /\ location_entry' = v
    /\ UNCHANGED << category_entry, radius_entry, focus, localVars, outputVars,
                    aloneVars, pc, returned, requests, pages_seen, ending >>

TypeCategory(v) ==
    /\ pc = "idle"
    /\ focus = "category"
    /\ v # category_entry
    /\ category_entry' = v
    /\ UNCHANGED << location_entry, radius_entry, focus, localVars, outputVars,
                    aloneVars, pc, returned, requests, pages_seen, ending >>

TypeRadius(v) ==
    /\ pc = "idle"
    /\ focus = "none"
    /\ v # radius_entry
    /\ radius_entry' = v
    /\ UNCHANGED << location_entry, category_entry, focus, localVars, outputVars,
                    aloneVars, pc, returned, requests, pages_seen, ending >>

(***************************************************************************)
(* run_scraper, from the click on the button to its first request.         *)
(***************************************************************************)
\* not location or not category
Blank(location, category) == location = "" \/ category = ""


\* the query of the text search
Query(location, category) == category \o " in " \o location

\* the radius line raises ValueError: it comes before the blank check and is
\* outside the try, so run_scraper ends by the exception, which Tk reports on
\* stderr; no messagebox is shown
run_scraper_crashes ==
    /\ pc = "idle"
    /\ ParseRadiusRaises(radius_entry)
    /\ ending' = [ how |-> "crashed", records |-> 0 ]
    /\ UNCHANGED << formVars, localVars, outputVars, aloneVars, pc, returned,
                    requests, pages_seen >>

run_scraper_rejects ==
    /\ pc = "idle"
    /\ ~ ParseRadiusRaises(radius_entry)
    /\ Blank(location_entry, category_entry)
    /\ lastbox' = InputErrorBox
    /\ ending' = [ how |-> "rejected", records |-> 0 ]
    /\ UNCHANGED << formVars, localVars, result_text, stdout, file, aloneVars, pc,
                    returned, requests, pages_seen >>

run_scraper_starts ==
    /\ pc = "idle"
    /\ ~ ParseRadiusRaises(radius_entry)
    /\ ~ Blank(location_entry, category_entry)
    /\ params' = [ query |-> Query(location_entry, category_entry),
                   key |-> API_KEY,
                   radius |-> ParseRadius(radius_entry),
                   pagetoken |-> None ]
    /\ client_list' = << >>
    /\ pc' = "search"
    /\ returned' = Unbound
    /\ pages_seen' = << >>
    /\ ending' = [ how |-> "running", records |-> 0 ]
    /\ UNCHANGED << formVars, businesses, idx, next_page_token, website, phone,
                    outputVars, aloneVars, requests >>

(***************************************************************************)
(* The ends of a run.                                                      *)
(***************************************************************************)
\* the locals of fetch_businesses are gone
DropLocals ==
    /\ params' = NoParams
    /\ client_list' = << >>
    /\ businesses' = << >>
    /\ idx' = 0
    /\ next_page_token' = None
    /\ website' = None
    /\ phone' = None

\* fetch_businesses returns cl: run_scraper from "if businesses:" on.
\* out is the last line printed so far.
Return(cl, how, out) ==
    /\ pc' = "idle"
    /\ returned' = [ bound |-> TRUE, value |-> cl ]
    /\ ending' = [ how |-> how, records |-> Len(cl) ]
    /\ DropLocals
    /\ IF cl # << >>
       THEN /\ file' = save_to_csv(cl, file, out).file
            /\ stdout' = save_to_csv(cl, file, out).stdout
            /\ result_text' = Render(cl)
            /\ lastbox' = SuccessBox(Len(cl))
       ELSE /\ lastbox' = NoResultsBox
            /\ stdout' = out
            /\ UNCHANGED << file, result_text >>

SavesPartial_Raise ==
    /\ pc' = "idle"
    /\ ending' = [ how |-> "raised", records |-> Len(client_list) ]
    /\ DropLocals
    /\ lastbox' = ErrorBox
    /\ file' = save_to_csv(client_list, file, stdout).file
    /\ UNCHANGED << returned, result_text, stdout >>

\* a request raises inside fetch_businesses: run_scraper's except clause
Raise ==
    /\ pc' = "idle"
    /\ ending' = [ how |-> "raised", records |-> Len(client_list) ]
    /\ DropLocals
    /\ lastbox' = ErrorBox
    /\ UNCHANGED << returned, result_text, stdout, file >>

\* fetch_businesses after the business at position i - 1 of page biz: the next
\* business, or the next page, or the return
Continue(cl, biz, i, token, w, ph, out) ==
    IF i <= Len(biz)
    THEN /\ pc' = "details"
         /\ client_list' = cl
         /\ businesses' = biz
         /\ idx' = i
         /\ next_page_token' = token
         /\ website' = w
         /\ phone' = ph
         /\ stdout' = out
         /\ UNCHANGED << params, returned, ending, result_text, lastbox, file >>
    ELSE IF Truthy(token)
    THEN /\ pc' = "search"
         /\ params' = [ params EXCEPT !.pagetoken = token ]
         /\ client_list' = cl
         /\ businesses' = biz
         /\ idx' = i
         /\ next_page_token' = token
         /\ website' = w
         /\ phone' = ph
         /\ stdout' = out
         /\ UNCHANGED << returned, ending, result_text, lastbox, file >>
    ELSE Return(cl, "exhausted", out)

(***************************************************************************)
(* fetch_businesses: the text search request.                              *)
(***************************************************************************)
SearchRaises ==
    /\ pc = "search"
    /\ requests < MaxRequests
    /\ requests' = requests + 1
    /\ Raise
    /\ UNCHANGED << formVars, aloneVars, pages_seen >>

StatusLine(code) == "Error fetching data: " \o ToString(code)

Discards_SearchStatus(code) ==
    /\ pc = "search"
    /\ requests < MaxRequests
    /\ requests' = requests + 1
    /\ Return(<< >>, "status", StatusLine(code))
    /\ UNCHANGED << formVars, aloneVars, pages_seen >>

SearchStatus(code) ==
    /\ pc = "search"
    /\ requests < MaxRequests
    /\ requests' = requests + 1
    /\ Return(client_list, "status", StatusLine(code))
    /\ UNCHANGED << formVars, aloneVars, pages_seen >>

ResetsList_SearchOk(results, token) ==
    /\ pc = "search"
    /\ requests < MaxRequests
    /\ requests' = requests + 1
    /\ pages_seen' = Append(pages_seen, results)
    /\ Continue(<< >>, results, 1, token, website, phone, stdout)
    /\ UNCHANGED << formVars, aloneVars >>

SearchOk(results, token) ==
    /\ pc = "search"
    /\ requests < MaxRequests
    /\ requests' = requests + 1
    /\ pages_seen' = Append(pages_seen, results)
    /\ Continue(client_list, results, 1, token, website, phone, stdout)
    /\ UNCHANGED << formVars, aloneVars >>

(***************************************************************************)
(* fetch_businesses: the details request of businesses[idx].               *)
(***************************************************************************)
\* the dict appended to client_list
Record(business, w, ph, email) ==
    [ Name |-> business.name,
      Website |-> IF Truthy(w) THEN w ELSE NoWebsite,
      Phone |-> IF Truthy(ph) THEN ph ELSE NoPhone,
      Email |-> email,
      Address |-> business.formatted_address ]

DetailsRaises ==
    /\ pc = "details"
    /\ requests < MaxRequests
    /\ requests' = requests + 1
    /\ Raise
    /\ UNCHANGED << formVars, aloneVars, pages_seen >>

SkipsRecord_DetailsStatus(code) ==
    /\ pc = "details"
    /\ requests < MaxRequests
    /\ requests' = requests + 1
    /\ Continue(client_list, businesses, idx + 1, next_page_token, NoWebsite,
                NoPhone, stdout)
    /\ UNCHANGED << formVars, aloneVars, pages_seen >>

DetailsStatus(code) ==
    /\ pc = "details"
    /\ requests < MaxRequests
    /\ requests' = requests + 1
    /\ Continue(Append(client_list,
                       Record(businesses[idx], NoWebsite, NoPhone, NoEmail)),
                businesses, idx + 1, next_page_token, NoWebsite, NoPhone, stdout)
    /\ UNCHANGED << formVars, aloneVars, pages_seen >>

\* email when the details payload has no website
EmailWithoutWebsite == "No website available"

DetailsOk(result) ==
    /\ pc = "details"
    /\ requests < MaxRequests
    /\ requests' = requests + 1
    /\ IF Truthy(result.website)
       THEN /\ pc' = "website"
            /\ website' = result.website
            /\ phone' = result.formatted_phone_number
            /\ UNCHANGED << params, client_list, businesses, idx, next_page_token,
                            returned, ending, outputVars >>
       ELSE Continue(Append(client_list,
                            Record(businesses[idx], result.website,
                                   result.formatted_phone_number,
                                   EmailWithoutWebsite)),
                     businesses, idx + 1, next_page_token, result.website,
                     result.formatted_phone_number, stdout)
    /\ UNCHANGED << formVars, aloneVars, pages_seen >>

(***************************************************************************)
(* fetch_businesses: fetch_email_from_website(website) of businesses[idx]. *)
(***************************************************************************)
WebsiteResponse(site) ==
    /\ pc = "website"
    /\ requests < MaxRequests
    /\ requests' = requests + 1
    /\ \E email \in fetch_email_from_website(site) :
          Continue(Append(client_list,
                          Record(businesses[idx], website, phone, email)),
                   businesses, idx + 1, next_page_token, website, phone,
                   fetch_email_prints(site, website, stdout))
    /\ UNCHANGED << formVars, aloneVars, pages_seen >>

Next ==
    \/ \E e \in Entries : FocusIn(e)
    \/ \E e \in Entries : FocusOut(e)
    \/ \E v \in LocationTexts : TypeLocation(v)
    \/ \E v \in CategoryTexts : TypeCategory(v)
    \/ \E v \in RadiusTexts : TypeRadius(v)
    \/ run_scraper_crashes
    \/ run_scraper_rejects
    \/ run_scraper_starts
    \/ SearchRaises
    \/ \E code \in BadStatus : SearchStatus(code)
    \/ \E results \in ResultPages, token \in Tokens : SearchOk(results, token)
    \/ DetailsRaises
    \/ \E code \in BadStatus : DetailsStatus(code)
    \/ \E result \in DetailsResults : DetailsOk(result)
    \/ \E site \in Sites : WebsiteResponse(site)

Spec == Init /\ [][Next]_vars

(***************************************************************************)
(* fetch_email_from_website on its own, on every text of up to MaxPieces   *)
(* pieces and on an exception.                                             *)
(***************************************************************************)
InitAlone ==
    /\ InitForm
    /\ page \in { Raises } \cup { [ raises |-> FALSE, text |-> t ] : t \in Texts(MaxPieces) }
    /\ harvest = NotHarvested

Harvest ==
    /\ ~ harvest.done
    /\ \E r \in fetch_email_from_website(page) :
          harvest' = [ done |-> TRUE, value |-> r ]
    /\ stdout' = fetch_email_prints(page, "http://a.example", stdout)
    /\ UNCHANGED << formVars, localVars, result_text, lastbox, file, pc, returned,
                    requests, pages_seen, ending, page >>

NextAlone == Harvest

SpecAlone == InitAlone /\ [][NextAlone]_vars

(***************************************************************************)
(* Properties.                                                             *)
(***************************************************************************)
RECURSIVE Flatten(_)
\* the hits of a sequence of pages, in order
Flatten(ps) == IF ps = << >> THEN << >> ELSE ps[1] \o Flatten(Tail(ps))

Fields == { "Name", "Website", "Phone", "Email", "Address" }

\* the records fetch_businesses has appended: in client_list during the run,
\* in run_scraper's businesses after it
Appended == IF returned.bound THEN returned.value ELSE client_list

\* C1: every record fetch_businesses appends has each of Name, Website, Phone,
\* Email and Address populated: not None and not empty.
C1_EveryFieldPopulated ==
    \A i \in DOMAIN Appended : \A f \in Fields : Truthy(Appended[i][f])

\* C2: the Email of every record is the joined addresses extracted from a
\* website or exactly "No email available".
C2_EmailIsHarvestOrSentinel ==
    \A i \in DOMAIN Appended :
        Appended[i].Email \in
            { NoEmail } \cup UNION { fetch_email_from_website(site) : site \in Sites }

\* record r was made from hit h
FromHit(r, h) == r.Name = h.name /\ r.Address = h.formatted_address

\* C3: while every search response is 200 the records are made from the hits
\* received, one each, in page order and in the order within the page; when
\* the chain ends in a page without next_page_token, fetch_businesses returns
\* one record per hit of every page.
C3_OneRecordPerHitInOrder ==
    LET hits == Flatten(pages_seen)
    IN  /\ pc # "idle" =>
            /\ Len(client_list) <= Len(hits)
            /\ \A i \in DOMAIN client_list : FromHit(client_list[i], hits[i])
        /\ ending.how = "exhausted" =>
            /\ pc = "idle"
            /\ returned.bound
            /\ Len(returned.value) = Len(hits)
            /\ \A i \in DOMAIN hits : FromHit(returned.value[i], hits[i])

\* two pages were fetched, the first with a token, and each gave a record
C3_Witness ==
    /\ ending.how = "exhausted"
    /\ Len(pages_seen) = 2
    /\ pages_seen[1] # << >>
    /\ pages_seen[2] # << >>
    /\ pages_seen[1][1] # pages_seen[2][1]
    /\ Len(returned.value) = 2

\* C4: a search response with a status other than 200, on the first page or a
\* later one, ends the run with no further request, and fetch_businesses
\* returns the records of the earlier pages unchanged: nothing is raised.
C4_BadSearchStatusReturnsPartial ==
    [][ (\E code \in BadStatus : SearchStatus(code)) =>
            /\ pc' = "idle"
            /\ requests' = requests + 1
            /\ returned' = [ bound |-> TRUE, value |-> client_list ]
            /\ lastbox' # ErrorBox
            /\ ending'.how = "status" ]_vars

\* a later page answered with a bad status after a record was collected
C4_Witness ==
    /\ ending.how = "status"
    /\ pages_seen # << >>
    /\ returned.bound
    /\ returned.value # << >>
    /\ stdout = StatusLine(500)

\* C5: a details response with a status other than 200 appends a record with
\* the website and phone sentinels, makes no website request, and goes on
\* with the next hit of the page and with pagination.
C5_BadDetailsStatusGivesSentinels ==
    [][ (\E code \in BadStatus : DetailsStatus(code)) =>
            LET after == IF pc' = "idle" THEN returned'.value ELSE client_list'
            IN  /\ Len(after) = Len(client_list) + 1
                /\ SubSeq(after, 1, Len(client_list)) = client_list
                /\ after[Len(after)].Website = "No website available"
                /\ after[Len(after)].Phone = "No phone available"
                /\ FromHit(after[Len(after)], businesses[idx])
                /\ requests' = requests + 1
                /\ pc' # "website"
                /\ idx < Len(businesses) => pc' = "details" /\ idx' = idx + 1
                /\ idx = Len(businesses) /\ Truthy(next_page_token) =>
                       pc' = "search" /\ params'.pagetoken = next_page_token
                /\ idx = Len(businesses) /\ ~ Truthy(next_page_token) =>
                       pc' = "idle" /\ ending'.how = "exhausted" ]_vars

\* the first hit of a page got a bad details status and the second is next
C5_Witness ==
    /\ pc = "details"
    /\ idx = 2
    /\ client_list # << >>
    /\ client_list[Len(client_list)].Website = NoWebsite
    /\ client_list[Len(client_list)].Phone = NoPhone
    /\ client_list[Len(client_list)].Email = NoEmail

\* C6: fetch_email_from_website returns for every outcome of the request:
\* "No email available" when the fetch or the parse raises or the text has no
\* match, else the matches joined with ", ", each distinct one exactly once.
C6_HarvestIsSentinelOrDistinctMatches ==
    /\ fetch_email_from_website(page) # {}
    /\ harvest.done =>
          LET matches == IF page.raises THEN << >> ELSE FindAll(page.text, 1)
              distinct == Range(matches)
          IN  IF page.raises \/ matches = << >>
              THEN harvest.value = "No email available"
              ELSE \E o \in [ 1..Cardinality(distinct) -> distinct ] :
                      /\ \A m \in distinct :
                            Cardinality({ i \in DOMAIN o : o[i] = m }) = 1
                      /\ harvest.value = Join(o)

\* a text with the same address twice
C6_Witness ==
    /\ harvest.done
    /\ ~ page.raises
    /\ Len(FindAll(page.text, 1)) = 2
    /\ Cardinality(Range(FindAll(page.text, 1))) = 1
    /\ harvest.value = "a@b.co"

\* a step of run_scraper from the click on the button
Trigger == run_scraper_crashes \/ run_scraper_rejects \/ run_scraper_starts

\* C7: a trigger while the location or the category field is blank is
\* rejected with the input error: no request is issued, no file written.
C7_BlankTriggerRejected ==
    [][ Trigger /\ (location_entry = "" \/ category_entry = "") =>
            /\ lastbox' = InputErrorBox
            /\ pc' = "idle"
            /\ requests' = requests
            /\ file' = file
            /\ UNCHANGED << result_text, returned, localVars >> ]_vars

\* C8: save_to_csv of an empty sequence writes nothing and reports "No data to
\* save."; a run of the form whose search yields no record leaves the file
\* untouched and shows the "No Results" notice, which is neither the success
\* nor the error notice, and nothing is raised.
C8_EmptyWritesNothing ==
    /\ [](save_to_csv(<< >>, file, stdout) =
              [ file |-> file, stdout |-> "No data to save." ])
    /\ [][ pc # "idle" /\ pc' = "idle" /\ returned'.bound /\ returned'.value = << >> =>
              /\ file' = file
              /\ result_text' = result_text
              /\ lastbox' = NoResultsBox
              /\ lastbox'.title = "No Results"
              /\ lastbox'.title \notin { "Success", "Error", "Input Error" }
              /\ ending'.how # "raised" ]_vars

\* a run without a record after a run that wrote the file
C8_Witness ==
    /\ pc = "idle"
    /\ returned.bound
    /\ returned.value = << >>
    /\ lastbox = NoResultsBox
    /\ file # << >>

\* C9: an exception of a search or details request, also after records or
\* whole pages were collected, ends the run with the error dialog and changes
\* nothing else: the file and the pane are as before and the records are gone.
C9_RaiseShowsErrorAndChangesNothingElse ==
    [][ SearchRaises \/ DetailsRaises =>
            /\ lastbox' = ErrorBox
            /\ pc' = "idle"
            /\ file' = file
            /\ result_text' = result_text
            /\ stdout' = stdout
            /\ ~ returned'.bound
            /\ client_list' = << >>
            /\ UNCHANGED formVars ]_vars

\* a request raised after a page was received and a record collected
C9_Witness ==
    /\ ending.how = "raised"
    /\ ending.records >= 1
    /\ pages_seen # << >>
    /\ lastbox = ErrorBox
    /\ ~ returned.bound

\* C10: a field without the focus is never empty: it holds its hint on start
\* and after every focus-out of an empty field.  So a trigger while neither
\* field has the focus passes the blank check (it is never rejected by it),
\* and the hint of an untouched field is the location or category of the
\* query of the search that starts.
C10_UnfocusedFieldNeverEmpty ==
    /\ [](/\ focus # "location" => location_entry # ""
          /\ focus # "category" => category_entry # ""
          /\ focus = "none" => ~ Blank(location_entry, category_entry))
    /\ [][ /\ location_entry = "" /\ FocusOut("location") =>
                 location_entry' = "Enter location"
           /\ category_entry = "" /\ FocusOut("category") =>
                 category_entry' = "Enter category"
           /\ focus = "none" /\ Trigger => ending'.how # "rejected"
           /\ focus = "none" /\ ~ ParseRadiusRaises(radius_entry) /\ Trigger =>
                 /\ pc' = "search"
                 /\ params'.query = category_entry \o " in " \o location_entry
                 /\ location_entry = "Enter location" =>
                       params'.query = category_entry \o " in Enter location"
                 /\ category_entry = "Enter category" =>
                       params'.query = "Enter category in " \o location_entry ]_vars

\* the category was typed, left, and the search runs with the location hint
C10_Witness ==
    /\ pc = "search"
    /\ focus = "none"
    /\ params.query = "cafes in Enter location"

====
